---- MODULE Spec2Model ----
(***************************************************************************)
(* Orchestration engine of the asynchronous split/upload pipeline:         *)
(* preflight -> split (chunked fan-out, chord join) -> upload (per-file     *)
(* fan-out, self-rescheduling finalizer), the file-backed job state store   *)
(* and the admission check on RUNNING ProcessingRun rows.                   *)
(*                                                                         *)
(* Spec          one job through the three phases (processing/tasks.py)     *)
(* SpecFair      Spec with the workers executing every enqueued task        *)
(* SpecAdm       several submitters against the admission check             *)
(* SpecAdmPhase  SpecAdm plus the start and retry requests of admitted jobs *)
(* SpecStore     one state key, writers using mkstemp + os.replace, readers *)
(* SpecChunk     the chunking arithmetic of split_pdf_job                   *)
(* SpecPoll      the three status views over a phase directory              *)
(* SpecPollLive  async_upload_status read by read beside the upload tasks   *)
(* SpecPreflight preflight_split_job over inputs around each limit          *)
(* SpecAdmJobs   admission with the tasks of every admitted job             *)
(***************************************************************************)
EXTENDS Integers, Sequences, FiniteSets, TLC

\* ---------------------------------------------------------------- bounds
MaxItems == 2
MaxSplitRuns == 1
MaxUploadRuns == 2
MaxChunkItems == 12      \* SpecChunk: manifest sizes 1..MaxChunkItems
MaxChunkSetting == 12    \* SpecChunk: configured chunk sizes -1..MaxChunkSetting
MaxAsyncJobs == 4        \* SpecAdm: job ids a submission can draw
MaxSyncJobs == 1         \* SpecAdm: synchronous processing sessions
MaxPhaseQueue == 1       \* SpecAdmPhase: split_pdf_job / upload_split_job tasks enqueued at a time
MaxWriters == 2          \* SpecStore: writes of the one state key
MaxReaders == 2          \* SpecStore: reads of the one state key
MaxPollItems == 50       \* SpecPoll: manifest sizes 1..MaxPollItems
MaxPollFailed == 1       \* SpecPoll: FAILED status records present at a poll

Items == 1..MaxItems

\* --------------------------------------------------------------- state
VARIABLES
    \* ---- one job (Spec)
    jobItems,        \* number of groups in request.json (outputs requested)
    chunkSetting,    \* settings.SPLIT_TASK_CHUNK_SIZE
    submitted,       \* start_preflight_split stored input.pdf and request.json
    preflight,       \* processing/preflight/<job>/state.json
    split,           \* processing/splits/<job>/state.json
    upload,          \* processing/uploads/<job>/state.json
    splitDir,        \* processing/splits/<job>/ exists
    splitManifest,   \* splits/<job>/manifest.json: total_outputs, 0 = no file
    outputStatus,    \* splits/<job>/output_status/<index>.json
    splitPdfs,       \* names of the *.pdf files in splits/<job>/
    uploadManifest,  \* uploads/<job>/manifest.json: files, <<>> = no file
    files,           \* uploads/<job>/files/<index>.json
    run,             \* status of the ProcessingRun row (job_id, ASYNC)
    queue,           \* Celery tasks enqueued and not yet started
    chordLeft,       \* per split invocation: header tasks not yet complete
    active,          \* task executions in progress (preflight, upload_split_file_job)
    fin,             \* finalizer executions between their scan and their write
    splitRuns,       \* split_pdf_job invocations requested so far
    uploadRuns,      \* upload_split_job invocations requested so far
    uploadGen,       \* upload_split_job executions so far
    rerun,           \* history: whether a re-invocation of upload enqueued workers
                     \* ("enqueued") and whether one of those did not succeed ("failed")
    sawSuccess       \* history: the upload_split_file_job executions in progress that
                     \* began when the status record of their index was SUCCESS

VARIABLES
    \* ---- the chunking of split_pdf_job (SpecChunk)
    chTotal,         \* len(outputs)
    chSetting,       \* settings.SPLIT_TASK_CHUNK_SIZE
    chHeader,        \* the header built by the fan-out loop
    chPc             \* "init" before the loop, "scheduled" after it

VARIABLES
    \* ---- admission (SpecAdm)
    runStatus,       \* ProcessingRun.status per job id, "NONE" = no row
    jobDirs,         \* job ids with preflight/<job>/input.pdf and request.json
    admQueue,        \* job ids whose preflight_split_job is enqueued
    phaseQueue,      \* job ids with a split_pdf_job or upload_split_job enqueued
    resp,            \* the response of the latest start_preflight_split
    rejectedAtCeiling, \* history: a submission was rejected with running_total
                     \* equal to the total ceiling
    jobPhase         \* per async job id, how far its tasks have got (SpecAdmJobs)

jobVars == <<jobItems, chunkSetting, submitted, preflight, split, upload, splitDir,
             splitManifest, outputStatus, splitPdfs, uploadManifest, files, run,
             queue, chordLeft, active, fin, splitRuns, uploadRuns, uploadGen, rerun,
             sawSuccess>>

chunkVars == <<chTotal, chSetting, chHeader, chPc>>

VARIABLES
    \* ---- one key of the state store (SpecStore)
    canon,           \* inode the canonical path names, 0 = no such file
    tmpNames,        \* writers whose temporary file is still in the directory
    content,         \* per inode (one per write): the parts written so far
    wpc,             \* per writer: position in _write_json_atomic
    rpc,             \* per reader: position in the poll
    rino,            \* per reader: the inode its open file descriptor names
    robs             \* per reader: what it has read so far

storeVars == <<canon, tmpNames, content, wpc, rpc, rino, robs>>

admVars == <<runStatus, jobDirs, admQueue, phaseQueue, resp, rejectedAtCeiling,
             jobPhase>>

VARIABLES
    \* ---- one poll of one phase directory (SpecPoll)
    pollPhase,       \* "PREFLIGHT", "SPLIT" or "UPLOAD": the view that is called
    pollState,       \* <phase>/<job>/state.json at the time of the poll
    pollManifest,    \* number of items in <phase>/<job>/manifest.json, 0 = no file
    pollRecs,        \* status of the item status record per index, "NONE" = no file
    pollResp,        \* the JSON answer of the view, NoAnswer before the call
    pollPc,          \* position of async_upload_status (SpecPollLive)
    pollTotal        \* the total async_upload_status has read

pollVars == <<pollPhase, pollState, pollManifest, pollRecs, pollResp, pollPc,
              pollTotal>>

VARIABLES
    \* ---- one execution of preflight_split_job (SpecPreflight)
    pfExists,        \* os.path.exists(input_pdf_path)
    pfSize,          \* os.path.getsize(input_pdf_path)
    pfReadable,      \* PdfReader can open the file
    pfPages,         \* len(reader.pages)
    pfText,          \* page_ranges_text, as a sequence of blocks of groups
    pfState,         \* preflight/<job>/state.json
    pfRun,           \* ProcessingRun.status of the job, "NONE" = no row
    pfPc             \* position in the task body

preVars == <<pfExists, pfSize, pfReadable, pfPages, pfText, pfState, pfRun, pfPc>>

vars == <<jobVars, chunkVars, admVars, storeVars, pollVars, preVars>>

notJob == <<chunkVars, admVars, storeVars, pollVars, preVars>>
notChunk == <<jobVars, admVars, storeVars, pollVars, preVars>>
notAdm == <<jobVars, chunkVars, storeVars, pollVars, preVars>>
notStore == <<jobVars, chunkVars, admVars, pollVars, preVars>>
notPoll == <<jobVars, chunkVars, admVars, storeVars, preVars>>
notPre == <<jobVars, chunkVars, admVars, storeVars, pollVars>>

\* ------------------------------------------------------------ state store
\* A phase state.json object; status "ABSENT" stands for "no such file".
StateRec(status, progress, error, stage, total, done, failed) ==
    [status |-> status, progress |-> progress, error |-> error, stage |-> stage,
     total |-> total, done |-> done, failed |-> failed]

Absent == StateRec("ABSENT", 0, "", "", 0, 0, 0)

\* A per-file upload status record; status "NONE" stands for "no such file".
FileRec(status, filename, attempts) ==
    [status |-> status, filename |-> filename, attempts |-> attempts]

NoFile == FileRec("NONE", 0, 0)

Task(task, gen, index, file, lo, hi) ==
    [task |-> task, gen |-> gen, index |-> index, file |-> file, lo |-> lo, hi |-> hi]

Min(a, b) == IF a < b THEN a ELSE b
Max(a, b) == IF a > b THEN a ELSE b

\* One write of a key: json.dump emits the payload in two parts.
Writers == 1..MaxWriters
Readers == 1..MaxReaders

\* The complete payload of write w.
Payload(w) == <<w, w>>

\* Faulty variant: the writer opens the canonical path itself for writing
LinkAtCreate_InPlace(w, c) == w

\* tempfile.mkstemp(dir=...): the new file gets a name of its own, so the
\* canonical path keeps naming what it named
LinkAtCreate(w, c) == c

\* ------------------------------------------------------ ProcessingRun row
\* Faulty variant: the row is set RUNNING on every call
get_or_create_run_Reset(r) == "RUNNING"

\* status "RUNNING" is among the defaults, which apply to a created row only
get_or_create_run(r) == IF r = "NONE" THEN "RUNNING" ELSE r

finish_run(r, status) == status

\* ------------------------------------------------------------- admission
AsyncJobs == 1..MaxAsyncJobs
SyncJobs == (MaxAsyncJobs + 1)..(MaxAsyncJobs + MaxSyncJobs)
AllJobs == AsyncJobs \cup SyncJobs

\* run_mode of the ProcessingRun row of a job id
run_mode(j) == IF j \in AsyncJobs THEN "ASYNC" ELSE "SYNC"

\* the defaults of MAX_RUNNING_JOBS_TOTAL and MAX_RUNNING_JOBS_ASYNC
MaxRunningTotal == 4
MaxRunningAsync == 3

\* ProcessingRun.objects.filter(status='RUNNING').count()
RunningTotal(rs) == Cardinality({j \in AllJobs : rs[j] = "RUNNING"})

\* ProcessingRun.objects.filter(status='RUNNING', run_mode='ASYNC').count()
RunningAsync(rs) ==
    Cardinality({j \in AllJobs : rs[j] = "RUNNING" /\ run_mode(j) = "ASYNC"})

Response(kind, job, running_total, running_async, max_total, max_async) ==
    [kind |-> kind, job |-> job,
     running_total |-> running_total, running_async |-> running_async,
     max_running_total |-> max_total, max_running_async |-> max_async]

NoResponse == Response("none", 0, 0, 0, 0, 0)

\* Faulty variant: the comparison lets a submission in at the ceiling
async_capacity_allows_new_job_Strict(rs) ==
    ~(RunningTotal(rs) > MaxRunningTotal \/ RunningAsync(rs) > MaxRunningAsync)

\* _async_capacity_allows_new_job: the first component of its result
async_capacity_allows_new_job(rs) ==
    ~(RunningTotal(rs) >= MaxRunningTotal \/ RunningAsync(rs) >= MaxRunningAsync)

\* Faulty variant: the two counts change places in the payload
BusyPayload_Swapped(rs) ==
    Response("busy", 0, RunningAsync(rs), RunningTotal(rs),
             MaxRunningTotal, MaxRunningAsync)

\* _async_capacity_allows_new_job: the 429 payload
BusyPayload(rs) ==
    Response("busy", 0, RunningTotal(rs), RunningAsync(rs),
             MaxRunningTotal, MaxRunningAsync)

\* --------------------------------------------------------------- chunking
\* the default of SPLIT_TASK_CHUNK_SIZE
DefaultChunkSize == 10

\* int(getattr(settings, 'SPLIT_TASK_CHUNK_SIZE', 10) or 10); below 1 -> 10
chunk_size(setting) ==
    LET v == IF setting = 0 THEN DefaultChunkSize ELSE setting
    IN  IF v < 1 THEN DefaultChunkSize ELSE v

\* range(0, len(outputs), chunk_size)
ChunkStarts(total, size) == {s \in 0..(total - 1) : s % size = 0}

\* --------------------------------------------------------------- Init
JobInit ==
    /\ jobItems \in 1..MaxItems
    /\ chunkSetting \in {1, DefaultChunkSize}
    /\ submitted = FALSE
    /\ preflight = Absent
    /\ split = Absent
    /\ upload = Absent
    /\ splitDir = FALSE
    /\ splitManifest = 0
    /\ outputStatus = [i \in Items |-> "NONE"]
    /\ splitPdfs = {}
    /\ uploadManifest = <<>>
    /\ files = [i \in Items |-> NoFile]
    /\ run = "NONE"
    /\ queue = {}
    /\ chordLeft = [g \in 1..MaxSplitRuns |-> 0]
    /\ active = {}
    /\ fin = {}
    /\ splitRuns = 0
    /\ uploadRuns = 0
    /\ uploadGen = 0
    /\ rerun = "none"
    /\ sawSuccess = {}

\* ------------------------------------------------------------ the views
\* start_preflight_split, once admitted: stores input.pdf and request.json under
\* preflight/<job>/ and enqueues preflight_split_job.
start_preflight_split ==
    /\ ~submitted
    /\ submitted' = TRUE
    /\ queue' = queue \cup {Task("preflight_split_job", 0, 0, 0, 0, 0)}
    /\ UNCHANGED <<jobItems, chunkSetting, preflight, split, upload, splitDir,
                   splitManifest, outputStatus, splitPdfs, uploadManifest, files, run,
                   chordLeft, active, fin, splitRuns, uploadRuns, uploadGen, rerun,
                       sawSuccess, notJob>>

\* start_async_split / retry_async_split, once admitted: split_pdf_job.delay(job_id)
start_async_split ==
    /\ splitRuns < MaxSplitRuns
    /\ splitRuns' = splitRuns + 1
    /\ queue' = queue \cup {Task("split_pdf_job", splitRuns + 1, 0, 0, 0, 0)}
    /\ UNCHANGED <<jobItems, chunkSetting, submitted, preflight, split, upload, splitDir,
                   splitManifest, outputStatus, splitPdfs, uploadManifest, files, run,
                   chordLeft, active, fin, uploadRuns, uploadGen, rerun,
                       sawSuccess, notJob>>

\* start_async_upload / retry_async_upload, once admitted: upload_split_job.delay(...)
start_async_upload ==
    /\ uploadRuns < MaxUploadRuns
    /\ uploadRuns' = uploadRuns + 1
    /\ queue' = queue \cup {Task("upload_split_job", 0, uploadRuns + 1, 0, 0, 0)}
    /\ UNCHANGED <<jobItems, chunkSetting, submitted, preflight, split, upload, splitDir,
                   splitManifest, outputStatus, splitPdfs, uploadManifest, files, run,
                   chordLeft, active, fin, splitRuns, uploadGen, rerun,
                       sawSuccess, notJob>>

\* ------------------------------------------------------------ preflight
\* preflight_split_job up to its first state write and get_or_create_run
preflight_begin ==
    \E t \in queue :
        /\ t.task = "preflight_split_job"
        /\ queue' = queue \ {t}
        /\ active' = active \cup {t}
        /\ preflight' = StateRec("RUNNING", 0, "", "PREFLIGHT", 0, 0, 0)
        /\ run' = get_or_create_run(run)
        /\ UNCHANGED <<jobItems, chunkSetting, submitted, split, upload, splitDir,
                       splitManifest, outputStatus, splitPdfs, uploadManifest, files,
                       chordLeft, fin, splitRuns, uploadRuns, uploadGen, rerun,
                       sawSuccess, notJob>>

\* the validations of preflight_split_job and its last state write
preflight_end ==
    \E t \in active, valid \in BOOLEAN :
        /\ t.task = "preflight_split_job"
        /\ active' = active \ {t}
        /\ IF valid
           THEN /\ preflight' = StateRec("SUCCESS", 100, "", "PREFLIGHT", 0, 0, 0)
                /\ run' = run
           ELSE /\ preflight' = StateRec("FAILED", 100, "ValueError", "PREFLIGHT", 0, 0, 0)
                /\ run' = finish_run(run, "FAILED")
        /\ UNCHANGED <<jobItems, chunkSetting, submitted, split, upload, splitDir,
                       splitManifest, outputStatus, splitPdfs, uploadManifest, files,
                       queue, chordLeft, fin, splitRuns, uploadRuns, uploadGen, rerun,
                       sawSuccess, notJob>>

\* ---------------------------------------------------------------- split
\* Faulty variant: only the existence of the preflight state is checked
SplitPrecondition_ExistsOnly(pre) ==
    IF pre.status = "ABSENT" THEN "Preflight has not been run for this job_id" ELSE ""

\* The error split_pdf_job raises before the manifest is built, "" when none.
SplitPrecondition(pre) ==
    IF pre.status = "ABSENT" THEN "Preflight has not been run for this job_id"
    ELSE IF pre.status # "SUCCESS" THEN "Preflight not successful"
    ELSE ""

\* Faulty variant: the last, shorter chunk is dropped
SplitHeader_FullChunksOnly(g, total, size) ==
    {Task("split_pdf_chunk_job", g, Cardinality(ChunkStarts(total, size)), 0,
          s + 1, s + size) : s \in {x \in ChunkStarts(total, size) : x + size <= total}}

\* The header of the chord: one split_pdf_chunk_job signature per chunk.
SplitHeader(g, total, size) ==
    {Task("split_pdf_chunk_job", g, Cardinality(ChunkStarts(total, size)), 0,
          s + 1, Min(s + size, total)) : s \in ChunkStarts(total, size)}

split_pdf_job ==
    \E t \in queue :
        /\ t.task = "split_pdf_job"
        /\ splitDir' = TRUE
        /\ LET err == SplitPrecondition(preflight)
               size == chunk_size(chunkSetting)
               header == SplitHeader(t.gen, jobItems, size)
           IN  IF err = ""
               THEN /\ splitManifest' = jobItems
                    /\ split' = StateRec("RUNNING", 0, "", "SPLIT", jobItems, 0, 0)
                    /\ queue' = (queue \ {t}) \cup header
                    /\ chordLeft' = [chordLeft EXCEPT ![t.gen] = Cardinality(header)]
                    /\ run' = get_or_create_run(run)
               ELSE /\ split' = StateRec("FAILED", 100, err, "SPLIT", 0, 0, 0)
                    /\ run' = finish_run(get_or_create_run(run), "FAILED")
                    /\ queue' = queue \ {t}
                    /\ UNCHANGED <<splitManifest, chordLeft>>
        /\ UNCHANGED <<jobItems, chunkSetting, submitted, preflight, upload,
                       outputStatus, splitPdfs, uploadManifest, files, active, fin,
                       splitRuns, uploadRuns, uploadGen, rerun,
                       sawSuccess, notJob>>

\* One chunk task: each output of the chunk that has no SUCCESS record is extracted
\* (the extraction collaborator succeeds or fails) and its status record written;
\* the chord runs finalize_split_job once the last header task has completed.
split_pdf_chunk_job ==
    \E t \in queue, res \in [Items -> {"SUCCESS", "FAILED"}] :
        /\ t.task = "split_pdf_chunk_job"
        /\ \A i \in Items : (i \notin t.lo..t.hi \/ outputStatus[i] = "SUCCESS")
                                => res[i] = "SUCCESS"
        /\ outputStatus' = [i \in Items |->
                              IF i \in t.lo..t.hi /\ outputStatus[i] # "SUCCESS"
                              THEN res[i] ELSE outputStatus[i]]
        /\ splitPdfs' = splitPdfs \cup
                          {i \in t.lo..t.hi : outputStatus[i] # "SUCCESS" /\ res[i] = "SUCCESS"}
        /\ chordLeft' = [chordLeft EXCEPT ![t.gen] = @ - 1]
        /\ queue' = (queue \ {t}) \cup
                      (IF chordLeft[t.gen] = 1
                       THEN {Task("finalize_split_job", t.gen, 0, 0, 0, t.index)} ELSE {})
        /\ UNCHANGED <<jobItems, chunkSetting, submitted, preflight, split, upload,
                       splitDir, splitManifest, uploadManifest, files, run, active, fin,
                       splitRuns, uploadRuns, uploadGen, rerun,
                       sawSuccess, notJob>>

\* ------------------------------------------------------- aggregate state
\* 'SUCCESS' if failed == 0 else 'PARTIAL_SUCCESS'
PhaseStatus(done, failed) == IF failed = 0 THEN "SUCCESS" ELSE "PARTIAL_SUCCESS"

\* The percentages p for which the double nearest to p / 100, times 100, rounds
\* to a double below p: 0.29 * 100 = 28.999999999999996,
\* 0.57 * 100 = 56.99999999999999, 0.58 * 100 = 57.99999999999999.
\* For every other p in 0..100 the product is p exactly.
RoundsBelow == {29, 57, 58}

\* int((done + failed) / max(1, total) * 100), in double arithmetic: a quotient
\* that is not a whole percentage lies at least 1 / total away from one, so int()
\* truncates it to the floor; a whole percentage p is the double nearest to
\* p / 100 times 100, which int() truncates to p - 1 when it lies below p
\* (exact for done + failed <= total, and for every total below 20).
Progress(total, done, failed) ==
    LET n == (done + failed) * 100
        t == Max(1, total)
    IN  IF n % t = 0 /\ (n \div t) \in RoundsBelow THEN (n \div t) - 1 ELSE n \div t

\* The scan of finalize_split_job: every *.json of output_status/ is read.
SplitScan ==
    [done   |-> Cardinality({i \in Items : outputStatus[i] = "SUCCESS"}),
     failed |-> Cardinality({i \in Items : outputStatus[i] = "FAILED"}),
     read   |-> Cardinality({i \in Items : outputStatus[i] # "NONE"})]

\* total_outputs of the manifest, else max(len(outputs), len(results))
SplitTotal(manifest, read, results) ==
    IF manifest # 0 THEN manifest ELSE Max(read, results)

\* The state finalize_split_job writes.
SplitFinalState(total, done, failed) ==
    StateRec(PhaseStatus(done, failed), 100, "", "SPLIT", total, done, failed)

\* finalize_split_job up to the end of its scan of the status files
finalize_split_scan ==
    \E t \in queue :
        /\ t.task = "finalize_split_job"
        /\ queue' = queue \ {t}
        /\ fin' = fin \cup
             {[task |-> t.task, gen |-> t.gen,
               total |-> SplitTotal(splitManifest, SplitScan.read, t.hi),
               done |-> SplitScan.done, failed |-> SplitScan.failed]}
        /\ UNCHANGED <<jobItems, chunkSetting, submitted, preflight, split, upload,
                       splitDir, splitManifest, outputStatus, splitPdfs, uploadManifest,
                       files, run, chordLeft, active, splitRuns, uploadRuns, uploadGen, rerun,
                       sawSuccess, notJob>>

\* finalize_split_job from its state write on: state.json, then finish_run
finalize_split_write ==
    \E f \in fin :
        /\ f.task = "finalize_split_job"
        /\ fin' = fin \ {f}
        /\ split' = SplitFinalState(f.total, f.done, f.failed)
        /\ run' = finish_run(get_or_create_run(run), split'.status)
        /\ UNCHANGED <<jobItems, chunkSetting, submitted, preflight, upload, splitDir,
                       splitManifest, outputStatus, splitPdfs, uploadManifest, files,
                       queue, chordLeft, active, splitRuns, uploadRuns, uploadGen, rerun,
                       sawSuccess, notJob>>

\* --------------------------------------------------------------- upload
\* pdf_files.sort(key=lambda p: p.name.lower()): the names in ascending order
Sorted(S) ==
    CHOOSE s \in [1..Cardinality(S) -> S] :
        \A i, j \in 1..Cardinality(S) : i < j => s[i] < s[j]

\* The fatal error of upload_split_job before its manifest is built, "" when none.
UploadPrecondition(dirExists, pdfs, dest) ==
    IF ~dirExists THEN "Split job folder not found"
    ELSE IF pdfs = {} THEN "No split PDFs found"
    ELSE IF dest = "no_root" THEN "Drive root folder ID is not configured"
    ELSE IF dest = "unresolvable" THEN "Failed to create/find patient folder in Drive"
    ELSE ""

\* Faulty variant: no file is skipped
UploadHeader_NoSkip(g, pdf_files, recs) ==
    {Task("upload_split_file_job", g, i, pdf_files[i], 0, 0) : i \in 1..Len(pdf_files)}

\* The header of the upload group: one upload_split_file_job signature for every
\* enumerated file whose status record is not a readable SUCCESS record.
UploadHeader(g, pdf_files, recs) ==
    {Task("upload_split_file_job", g, i, pdf_files[i], 0, 0) :
        i \in {k \in 1..Len(pdf_files) : recs[k].status # "SUCCESS"}}

\* One execution of upload_split_job. dest is what the destination lookup of
\* tasks.py:611-621 does: "raises" is DrivePathResolver(...) or resolve_path
\* raising (no credentials, a Drive API error), which happens before the try
\* of line 661, so the task ends there with that exception.
upload_split_job ==
    \E t \in queue, dest \in {"ok", "no_root", "unresolvable", "raises"} :
        /\ t.task = "upload_split_job"
        /\ uploadGen' = uploadGen + 1
        /\ LET err == UploadPrecondition(splitDir, splitPdfs, dest)
               pdf_files == Sorted(splitPdfs)
               header == UploadHeader(uploadGen + 1, pdf_files, files)
           IN  IF err # ""
               THEN /\ upload' = StateRec("FAILED", 100, err, "", 0, 0, 0)
                    /\ run' = finish_run(get_or_create_run(run), "FAILED")
                    /\ queue' = queue \ {t}
                    /\ UNCHANGED <<uploadManifest, rerun>>
               ELSE IF dest = "raises"
               THEN /\ run' = get_or_create_run(run)
                    /\ queue' = queue \ {t}
                    /\ UNCHANGED <<upload, uploadManifest, rerun>>
               ELSE /\ uploadManifest' = pdf_files
                    /\ upload' = StateRec("RUNNING", 0, "", "UPLOAD", Len(pdf_files), 0, 0)
                    /\ run' = get_or_create_run(run)
                    /\ queue' = (queue \ {t})
                                  \cup header
                                  \cup {Task("finalize_upload_job", uploadGen + 1, 0, 0, 0, 0)}
                    /\ rerun' = IF uploadGen >= 1 /\ header # {} /\ rerun = "none"
                                THEN "enqueued" ELSE rerun
        /\ UNCHANGED <<jobItems, chunkSetting, submitted, preflight, split, splitDir,
                       splitManifest, outputStatus, splitPdfs, files, chordLeft, active,
                       fin, splitRuns, uploadRuns,
                       sawSuccess, notJob>>

\* range(1, 4): the upload collaborator is called at most three times
MaxAttempts == 3

\* The record upload_split_file_job writes, given what each call of the upload
\* collaborator would return (TRUE: file id and link; FALSE: an exception).
UploadOutcome(t, localExists, calls) ==
    IF ~localExists THEN FileRec("FAILED", t.file, 0)
    ELSE IF \E a \in 1..MaxAttempts : calls[a]
         THEN FileRec("SUCCESS", t.file,
                      CHOOSE a \in 1..MaxAttempts :
                          calls[a] /\ \A b \in 1..(a - 1) : ~calls[b])
         ELSE FileRec("FAILED", t.file, MaxAttempts)

\* a worker process picks an upload_split_file_job off the queue
upload_split_file_begin ==
    \E t \in queue :
        /\ t.task = "upload_split_file_job"
        /\ queue' = queue \ {t}
        /\ active' = active \cup {t}
        /\ sawSuccess' = IF files[t.index].status = "SUCCESS"
                         THEN sawSuccess \cup {t} ELSE sawSuccess
        /\ UNCHANGED <<jobItems, chunkSetting, submitted, preflight, split, upload,
                       splitDir, splitManifest, outputStatus, splitPdfs, uploadManifest,
                       files, run, chordLeft, fin, splitRuns, uploadRuns, uploadGen, rerun,
                       notJob>>

\* the body of upload_split_file_job: get_drive_service() (outside every try:
\* when it raises, the task ends with that exception and writes nothing), the
\* calls of drive.upload_file, then one status record
upload_split_file_job ==
    \E t \in active, service \in BOOLEAN, calls \in [1..MaxAttempts -> BOOLEAN] :
        /\ t.task = "upload_split_file_job"
        /\ ~service => \A a \in 1..MaxAttempts : ~calls[a]
        /\ active' = active \ {t}
        /\ LET localExists == t.file \in splitPdfs
               raised == localExists /\ ~service
           IN  /\ files' = IF raised THEN files
                           ELSE [files EXCEPT ![t.index] = UploadOutcome(t, localExists, calls)]
               /\ rerun' = IF t.gen >= 2 /\ (raised \/ files'[t.index].status # "SUCCESS")
                           THEN "failed" ELSE rerun
        /\ sawSuccess' = sawSuccess \ {t}
        /\ UNCHANGED <<jobItems, chunkSetting, submitted, preflight, split, upload,
                       splitDir, splitManifest, outputStatus, splitPdfs, uploadManifest,
                       run, queue, chordLeft, fin, splitRuns, uploadRuns, uploadGen,
                       notJob>>

\* the worker process dies before the status record is written
upload_split_file_crash ==
    \E t \in active :
        /\ t.task = "upload_split_file_job"
        /\ active' = active \ {t}
        /\ rerun' = IF t.gen >= 2 THEN "failed" ELSE rerun
        /\ sawSuccess' = sawSuccess \ {t}
        /\ UNCHANGED <<jobItems, chunkSetting, submitted, preflight, split, upload,
                       splitDir, splitManifest, outputStatus, splitPdfs, uploadManifest,
                       files, run, queue, chordLeft, fin, splitRuns, uploadRuns, uploadGen,
                       notJob>>

\* The scan of finalize_upload_job over the status paths of the manifest.
UploadScan(manifest, recs) ==
    [total  |-> Len(manifest),
     done   |-> Cardinality({i \in 1..Len(manifest) : recs[i].status = "SUCCESS"}),
     failed |-> Cardinality({i \in 1..Len(manifest) : recs[i].status = "FAILED"})]

\* Faulty variant: the state is final whatever the scan found
UploadFinalState_AlwaysFinal(total, done, failed) ==
    StateRec(PhaseStatus(done, failed), 100, "", "UPLOAD", total, done, failed)

\* The state finalize_upload_job writes after its scan.
UploadFinalState(total, done, failed) ==
    LET running == (done + failed) < total
    IN  StateRec(IF running THEN "RUNNING" ELSE PhaseStatus(done, failed),
                 IF running THEN Progress(total, done, failed) ELSE 100,
                 "", "UPLOAD", total, done, failed)

\* finalize_upload_job up to the end of its scan; without a manifest it writes
\* FAILED at once
finalize_upload_scan ==
    \E t \in queue :
        /\ t.task = "finalize_upload_job"
        /\ queue' = queue \ {t}
        /\ IF uploadManifest = <<>>
           THEN /\ upload' = StateRec("FAILED", 100, "Upload manifest not found", "", 0, 0, 0)
                /\ run' = finish_run(get_or_create_run(run), "FAILED")
                /\ fin' = fin
           ELSE /\ fin' = fin \cup
                     {[task |-> t.task, gen |-> t.gen,
                       total |-> UploadScan(uploadManifest, files).total,
                       done |-> UploadScan(uploadManifest, files).done,
                       failed |-> UploadScan(uploadManifest, files).failed]}
                /\ UNCHANGED <<upload, run>>
        /\ UNCHANGED <<jobItems, chunkSetting, submitted, preflight, split, splitDir,
                       splitManifest, outputStatus, splitPdfs, uploadManifest, files,
                       chordLeft, active, splitRuns, uploadRuns, uploadGen, rerun,
                       sawSuccess, notJob>>

\* finalize_upload_job from its state write on: state.json, then either the next
\* finalize_upload_job (countdown 2) or finish_run
finalize_upload_write ==
    \E f \in fin :
        /\ f.task = "finalize_upload_job"
        /\ fin' = fin \ {f}
        /\ upload' = UploadFinalState(f.total, f.done, f.failed)
        /\ IF upload'.status = "RUNNING"
           THEN /\ queue' = queue \cup {Task("finalize_upload_job", f.gen, 0, 0, 0, 0)}
                /\ run' = run
           ELSE /\ queue' = queue
                /\ run' = finish_run(get_or_create_run(run), upload'.status)
        /\ UNCHANGED <<jobItems, chunkSetting, submitted, preflight, split, splitDir,
                       splitManifest, outputStatus, splitPdfs, uploadManifest, files,
                       chordLeft, active, splitRuns, uploadRuns, uploadGen, rerun,
                       sawSuccess, notJob>>

\* ------------------------------------------------------------------ Spec
JobNext ==
    \/ start_preflight_split
    \/ start_async_split
    \/ start_async_upload
    \/ preflight_begin
    \/ preflight_end
    \/ split_pdf_job
    \/ split_pdf_chunk_job
    \/ finalize_split_scan
    \/ finalize_split_write
    \/ upload_split_job
    \/ upload_split_file_begin
    \/ upload_split_file_job
    \/ upload_split_file_crash
    \/ finalize_upload_scan
    \/ finalize_upload_write

\* The variables of the other specifications, at rest.
ChunkIdle == chTotal = 1 /\ chSetting = 0 /\ chHeader = {} /\ chPc = "init"

StoreIdle ==
    /\ canon = 0
    /\ tmpNames = {}
    /\ content = [w \in Writers |-> <<>>]
    /\ wpc = [w \in Writers |-> "idle"]
    /\ rpc = [r \in Readers |-> "idle"]
    /\ rino = [r \in Readers |-> 0]
    /\ robs = [r \in Readers |-> <<>>]

AdmIdle ==
    /\ runStatus = [j \in AllJobs |-> "NONE"]
    /\ jobDirs = {}
    /\ admQueue = {}
    /\ phaseQueue = {}
    /\ resp = NoResponse
    /\ rejectedAtCeiling = FALSE
    /\ jobPhase = [j \in AsyncJobs |-> "none"]

\* The answer of a status view: the state object plus 'success'.
Answer(success, status, progress, error, total, done, failed) ==
    [success |-> success, status |-> status, progress |-> progress, error |-> error,
     total |-> total, done |-> done, failed |-> failed]

NoAnswer == Answer(FALSE, "", 0, "", 0, 0, 0)

PollItems == 1..MaxPollItems

PollIdle ==
    /\ pollPhase = "PREFLIGHT"
    /\ pollState = Absent
    /\ pollManifest = 0
    /\ pollRecs = [i \in PollItems |-> "NONE"]
    /\ pollResp = NoAnswer
    /\ pollPc = "idle"
    /\ pollTotal = 0

PreIdle ==
    /\ pfExists = FALSE /\ pfSize = 0 /\ pfReadable = FALSE /\ pfPages = 0
    /\ pfText = <<>> /\ pfState = Absent /\ pfRun = "NONE" /\ pfPc = "queued"

Init == JobInit /\ ChunkIdle /\ AdmIdle /\ StoreIdle /\ PollIdle /\ PreIdle

Next == JobNext

Spec == Init /\ [][Next]_vars

\* --------------------------------------------------------------- SpecFair
\* The Celery workers take every task that stays enqueued and run every task
\* body they have begun to its end, unless the worker process dies; the requests
\* of the client (the three start views) and the death of a worker process are
\* under no such obligation.
Fairness ==
    /\ WF_vars(preflight_begin)
    /\ WF_vars(preflight_end)
    /\ WF_vars(split_pdf_job)
    /\ WF_vars(split_pdf_chunk_job)
    /\ WF_vars(finalize_split_scan)
    /\ WF_vars(finalize_split_write)
    /\ WF_vars(upload_split_job)
    /\ WF_vars(upload_split_file_begin)
    /\ WF_vars(upload_split_file_job)
    /\ WF_vars(finalize_upload_scan)
    /\ WF_vars(finalize_upload_write)

SpecFair == Init /\ [][Next]_vars /\ Fairness

\* ------------------------------------------------------------ SpecChunk
\* The fan-out loop of split_pdf_job on its own, over manifest sizes and
\* configured chunk sizes.
JobIdle ==
    /\ jobItems = 1 /\ chunkSetting = 1 /\ submitted = FALSE
    /\ preflight = Absent /\ split = Absent /\ upload = Absent
    /\ splitDir = FALSE /\ splitManifest = 0
    /\ outputStatus = [i \in Items |-> "NONE"] /\ splitPdfs = {}
    /\ uploadManifest = <<>> /\ files = [i \in Items |-> NoFile]
    /\ run = "NONE" /\ queue = {} /\ chordLeft = [g \in 1..MaxSplitRuns |-> 0]
    /\ active = {} /\ fin = {} /\ splitRuns = 0 /\ uploadRuns = 0
    /\ uploadGen = 0 /\ rerun = "none" /\ sawSuccess = {}

ChunkInit ==
    /\ chTotal \in 1..MaxChunkItems
    /\ chSetting \in (-1)..MaxChunkSetting
    /\ chHeader = {}
    /\ chPc = "init"

\* lines 464-494 of split_pdf_job: chunk_size, then one signature per chunk
schedule_chunks ==
    /\ chPc = "init"
    /\ chHeader' = SplitHeader(1, chTotal, chunk_size(chSetting))
    /\ chPc' = "scheduled"
    /\ UNCHANGED <<chTotal, chSetting, notChunk>>

InitChunk == ChunkInit /\ JobIdle /\ AdmIdle /\ StoreIdle /\ PollIdle /\ PreIdle

NextChunk == schedule_chunks

SpecChunk == InitChunk /\ [][NextChunk]_vars

\* -------------------------------------------------------------- SpecAdm
\* start_preflight_split: the admission check, then a fresh job id, its
\* input.pdf and request.json, and preflight_split_job.delay
start_preflight_split_view ==
    \E j \in AsyncJobs :
        /\ j \notin jobDirs
        /\ IF ~async_capacity_allows_new_job(runStatus)
           THEN /\ resp' = BusyPayload(runStatus)
                /\ rejectedAtCeiling' =
                      (rejectedAtCeiling \/ RunningTotal(runStatus) = MaxRunningTotal)
                /\ UNCHANGED <<runStatus, jobDirs, admQueue>>
           ELSE /\ jobDirs' = jobDirs \cup {j}
                /\ admQueue' = admQueue \cup {j}
                /\ resp' = Response("accepted", j, 0, 0, 0, 0)
                /\ UNCHANGED <<runStatus, rejectedAtCeiling>>
        /\ UNCHANGED <<phaseQueue, jobPhase, notAdm>>

\* start_async_split, retry_async_split, start_async_upload, retry_async_upload
\* for the job id of an admitted job: the admission check, then
\* split_pdf_job.delay(job_id) or upload_split_job.delay(job_id, ...)
start_async_phase_view ==
    \E j \in jobDirs :
        /\ Cardinality(phaseQueue) < MaxPhaseQueue
        /\ IF ~async_capacity_allows_new_job(runStatus)
           THEN /\ resp' = BusyPayload(runStatus)
                /\ UNCHANGED phaseQueue
           ELSE /\ phaseQueue' = phaseQueue \cup {j}
                /\ resp' = Response("started", j, 0, 0, 0, 0)
        /\ UNCHANGED <<runStatus, jobDirs, admQueue, rejectedAtCeiling, jobPhase, notAdm>>

\* split_pdf_job / upload_split_job: get_or_create_run(job_id, run_mode='ASYNC')
phase_job_run ==
    \E j \in phaseQueue :
        /\ phaseQueue' = phaseQueue \ {j}
        /\ runStatus' = [runStatus EXCEPT ![j] = get_or_create_run(@)]
        /\ UNCHANGED <<jobDirs, admQueue, resp, rejectedAtCeiling, jobPhase, notAdm>>

\* preflight_split_job: get_or_create_run(job_id, run_mode='ASYNC')
preflight_split_job_run ==
    \E j \in admQueue :
        /\ admQueue' = admQueue \ {j}
        /\ runStatus' = [runStatus EXCEPT ![j] = get_or_create_run(@)]
        /\ UNCHANGED <<jobDirs, phaseQueue, resp, rejectedAtCeiling, jobPhase, notAdm>>

\* the synchronous processing stream: get_or_create_run(session_id, run_mode='SYNC'),
\* with no admission check before it
sync_get_or_create_run ==
    \E j \in SyncJobs :
        /\ runStatus[j] = "NONE"
        /\ runStatus' = [runStatus EXCEPT ![j] = get_or_create_run(@)]
        /\ UNCHANGED <<jobDirs, admQueue, phaseQueue, resp, rejectedAtCeiling, jobPhase, notAdm>>

\* finish_run on a RUNNING row (preflight failure, finalizer, end of a sync run)
finish_run_row ==
    \E j \in AllJobs, status \in {"SUCCESS", "PARTIAL_SUCCESS", "FAILED"} :
        /\ runStatus[j] = "RUNNING"
        /\ runStatus' = [runStatus EXCEPT ![j] = finish_run(@, status)]
        /\ UNCHANGED <<jobDirs, admQueue, phaseQueue, resp, rejectedAtCeiling, jobPhase, notAdm>>

InitAdm == AdmIdle /\ JobIdle /\ ChunkIdle /\ StoreIdle /\ PollIdle /\ PreIdle

NextAdm ==
    \/ start_preflight_split_view
    \/ preflight_split_job_run
    \/ sync_get_or_create_run
    \/ finish_run_row

SpecAdm == InitAdm /\ [][NextAdm]_vars

\* --------------------------------------------------------- SpecAdmPhase
\* SpecAdm together with the requests that start the split or the upload of an
\* admitted job and the tasks they enqueue.
NextAdmPhase ==
    \/ start_preflight_split_view
    \/ start_async_phase_view
    \/ preflight_split_job_run
    \/ phase_job_run
    \/ sync_get_or_create_run
    \/ finish_run_row

SpecAdmPhase == InitAdm /\ [][NextAdmPhase]_vars

\* ---------------------------------------------------------- SpecAdmJobs
\* Admission together with the tasks of each admitted job, so that a run row
\* changes only where a task or a view of the program changes it. jobPhase of
\* a job: "none", "preflight" (preflight_split_job is running), "waiting"
\* (preflight SUCCESS, split not yet requested), "queued" (split_pdf_job
\* enqueued), "split" (split_pdf_job has run, chunks in flight), "finished"
\* (the run was finished by a task of the job).

\* preflight_split_job up to its validations: get_or_create_run (tasks.py:298)
adm_preflight_begin ==
    \E j \in admQueue :
        /\ admQueue' = admQueue \ {j}
        /\ runStatus' = [runStatus EXCEPT ![j] = get_or_create_run(@)]
        /\ jobPhase' = [jobPhase EXCEPT ![j] = "preflight"]
        /\ UNCHANGED <<jobDirs, phaseQueue, resp, rejectedAtCeiling, notAdm>>

\* the end of preflight_split_job: SUCCESS leaves the run row as it is
\* (tasks.py:342-358), a failure finishes it (368)
adm_preflight_end ==
    \E j \in AsyncJobs, valid \in BOOLEAN :
        /\ jobPhase[j] = "preflight"
        /\ IF valid
           THEN /\ jobPhase' = [jobPhase EXCEPT ![j] = "waiting"]
                /\ runStatus' = runStatus
           ELSE /\ jobPhase' = [jobPhase EXCEPT ![j] = "finished"]
                /\ runStatus' = [runStatus EXCEPT ![j] = finish_run(@, "FAILED")]
        /\ UNCHANGED <<jobDirs, admQueue, phaseQueue, resp, rejectedAtCeiling, notAdm>>

\* start_async_split / retry_async_split for a job whose preflight succeeded
adm_start_async_split ==
    \E j \in AsyncJobs :
        /\ jobPhase[j] = "waiting"
        /\ IF ~async_capacity_allows_new_job(runStatus)
           THEN /\ resp' = BusyPayload(runStatus)
                /\ UNCHANGED jobPhase
           ELSE /\ jobPhase' = [jobPhase EXCEPT ![j] = "queued"]
                /\ resp' = Response("started", j, 0, 0, 0, 0)
        /\ UNCHANGED <<runStatus, jobDirs, admQueue, phaseQueue, rejectedAtCeiling,
                       notAdm>>

\* split_pdf_job: get_or_create_run (tasks.py:391), then the chord
adm_split_pdf_job ==
    \E j \in AsyncJobs :
        /\ jobPhase[j] = "queued"
        /\ runStatus' = [runStatus EXCEPT ![j] = get_or_create_run(@)]
        /\ jobPhase' = [jobPhase EXCEPT ![j] = "split"]
        /\ UNCHANGED <<jobDirs, admQueue, phaseQueue, resp, rejectedAtCeiling, notAdm>>

\* finalize_split_job: finish_run with the aggregate status (tasks.py:569-577)
adm_finalize_split_job ==
    \E j \in AsyncJobs, status \in {"SUCCESS", "PARTIAL_SUCCESS"} :
        /\ jobPhase[j] = "split"
        /\ runStatus' = [runStatus EXCEPT ![j] = finish_run(@, status)]
        /\ jobPhase' = [jobPhase EXCEPT ![j] = "finished"]
        /\ UNCHANGED <<jobDirs, admQueue, phaseQueue, resp, rejectedAtCeiling, notAdm>>

\* the end of a synchronous run: finish_run in the view that created the row
adm_sync_finish_run ==
    \E j \in SyncJobs, status \in {"SUCCESS", "FAILED"} :
        /\ runStatus[j] = "RUNNING"
        /\ runStatus' = [runStatus EXCEPT ![j] = finish_run(@, status)]
        /\ UNCHANGED <<jobDirs, admQueue, phaseQueue, resp, rejectedAtCeiling,
                       jobPhase, notAdm>>

NextAdmJobs ==
    \/ start_preflight_split_view
    \/ adm_preflight_begin
    \/ adm_preflight_end
    \/ adm_start_async_split
    \/ adm_split_pdf_job
    \/ adm_finalize_split_job
    \/ sync_get_or_create_run
    \/ adm_sync_finish_run

SpecAdmJobs == InitAdm /\ [][NextAdmJobs]_vars

\* ------------------------------------------------------------ SpecStore
\* _write_job_state / _write_json_atomic, line by line, for one key

\* tempfile.mkstemp
write_mkstemp ==
    \E w \in Writers :
        /\ wpc[w] = "idle"
        /\ wpc' = [wpc EXCEPT ![w] = "created"]
        /\ tmpNames' = tmpNames \cup {w}
        /\ canon' = LinkAtCreate(w, canon)
        /\ UNCHANGED <<content, rpc, rino, robs, notStore>>

\* json.dump(payload, f): one part of the payload reaches the file
write_dump ==
    \E w \in Writers :
        /\ wpc[w] = "created"
        /\ content' = [content EXCEPT ![w] = Append(@, w)]
        /\ wpc' = [wpc EXCEPT ![w] =
                      IF content'[w] = Payload(w) THEN "written" ELSE "created"]
        /\ UNCHANGED <<canon, tmpNames, rpc, rino, robs, notStore>>

\* os.replace(tmp_path, path); the finally block finds no temporary file
write_replace ==
    \E w \in Writers :
        /\ wpc[w] = "written"
        /\ canon' = w
        /\ tmpNames' = tmpNames \ {w}
        /\ wpc' = [wpc EXCEPT ![w] = "done"]
        /\ UNCHANGED <<content, rpc, rino, robs, notStore>>

\* json.dump raises: the finally block unlinks the temporary file
write_fails ==
    \E w \in Writers :
        /\ wpc[w] = "created"
        /\ tmpNames' = tmpNames \ {w}
        /\ wpc' = [wpc EXCEPT ![w] = "failed"]
        /\ UNCHANGED <<canon, content, rpc, rino, robs, notStore>>

\* the writing process is killed between mkstemp and os.replace
write_crash ==
    \E w \in Writers :
        /\ wpc[w] \in {"created", "written"}
        /\ wpc' = [wpc EXCEPT ![w] = "crashed"]
        /\ UNCHANGED <<canon, tmpNames, content, rpc, rino, robs, notStore>>

\* async_upload_status: os.path.exists(state_path), else the PENDING answer
read_exists ==
    \E r \in Readers :
        /\ rpc[r] = "idle"
        /\ rpc' = [rpc EXCEPT ![r] = IF canon = 0 THEN "absent" ELSE "exists"]
        /\ UNCHANGED <<canon, tmpNames, content, wpc, rino, robs, notStore>>

\* open(state_path, 'r')
read_open ==
    \E r \in Readers :
        /\ rpc[r] = "exists"
        /\ rino' = [rino EXCEPT ![r] = canon]
        /\ rpc' = [rpc EXCEPT ![r] = "open"]
        /\ UNCHANGED <<canon, tmpNames, content, wpc, robs, notStore>>

\* json.load(f): the next part of the file, or end of file
read_part ==
    \E r \in Readers :
        /\ rpc[r] = "open"
        /\ IF Len(robs[r]) < Len(content[rino[r]])
           THEN /\ robs' = [robs EXCEPT ![r] = Append(@, content[rino[r]][Len(@) + 1])]
                /\ rpc' = rpc
           ELSE /\ rpc' = [rpc EXCEPT ![r] = "done"]
                /\ robs' = robs
        /\ UNCHANGED <<canon, tmpNames, content, wpc, rino, notStore>>

InitStore == StoreIdle /\ JobIdle /\ ChunkIdle /\ AdmIdle /\ PollIdle /\ PreIdle

NextStore ==
    \/ write_mkstemp
    \/ write_dump
    \/ write_replace
    \/ write_fails
    \/ write_crash
    \/ read_exists
    \/ read_open
    \/ read_part

SpecStore == InitStore /\ [][NextStore]_vars

\* ------------------------------------------------------------- SpecPoll
\* The three status views, each over the contents its phase directory can have.

\* {'success': True, 'job_id': job_id, 'status': 'PENDING'}
PendingAnswer == Answer(TRUE, "PENDING", 0, "", 0, 0, 0)

\* state['success'] = True; return JsonResponse(state)
StateAnswer(st) ==
    Answer(TRUE, st.status, st.progress, st.error, st.total, st.done, st.failed)

\* The records of the status directory that carry the given status.
CountRecs(recs, status) == Cardinality({i \in DOMAIN recs : recs[i] = status})

\* Faulty variant: no test for the file, open() raises and the view answers 500
PreflightStatusAnswer_NoExistsTest(st) ==
    IF st.status = "ABSENT" THEN Answer(FALSE, "", 0, "FileNotFoundError", 0, 0, 0)
    ELSE StateAnswer(st)

\* preflight_split_status
PreflightStatusAnswer(st) ==
    IF st.status = "ABSENT" THEN PendingAnswer ELSE StateAnswer(st)

\* async_split_status
SplitStatusAnswer(st, manifest, recs) ==
    IF st.status = "ABSENT" THEN PendingAnswer
    ELSE IF st.stage = "SPLIT" /\ st.status = "RUNNING"
    THEN LET done == CountRecs(recs, "SUCCESS")
             failed == CountRecs(recs, "FAILED")
             fromManifest == IF manifest # 0 THEN manifest ELSE st.total
             total == IF fromManifest = 0 THEN Max(1, done + failed) ELSE fromManifest
         IN  Answer(TRUE, st.status, Progress(total, done, failed), st.error,
                    total, done, failed)
    ELSE StateAnswer(st)

\* async_upload_status
UploadStatusAnswer(st, manifest, recs) ==
    IF st.status = "ABSENT" THEN PendingAnswer
    ELSE IF st.stage = "UPLOAD" /\ st.status = "RUNNING"
    THEN LET done == CountRecs(recs, "SUCCESS")
             failed == CountRecs(recs, "FAILED")
             total == IF manifest # 0 THEN manifest ELSE st.total
         IN  Answer(TRUE, st.status, Progress(total, done, failed), st.error,
                    total, done, failed)
    ELSE StateAnswer(st)

\* Status records of d successes and f failures among the first d + f indices.
RecsOf(d, f) ==
    [i \in PollItems |-> IF i <= d THEN "SUCCESS"
                         ELSE IF i <= d + f THEN "FAILED" ELSE "NONE"]

\* What preflight/<job>/ can hold: nothing, or the state preflight_split_job wrote
\* last (progress 0, 10, 30, 60 while RUNNING).
PreflightDirInit ==
    /\ pollManifest = 0
    /\ pollRecs = RecsOf(0, 0)
    /\ pollState \in {Absent,
                       StateRec("SUCCESS", 100, "", "PREFLIGHT", 0, 0, 0),
                       StateRec("FAILED", 100, "ValueError", "PREFLIGHT", 0, 0, 0)}
                      \cup {StateRec("RUNNING", g, "", "PREFLIGHT", 0, 0, 0) :
                               g \in {0, 10, 30, 60}}

\* What splits/<job>/ can hold: nothing; the first state of split_pdf_job (total
\* 0) with the manifest not yet written or left by an earlier invocation; the
\* state written after the manifest; the state of the except branch; the state of
\* finalize_split_job.
SplitDirInit ==
    \E T \in 0..MaxPollItems, d \in 0..MaxPollItems, f \in 0..MaxPollFailed :
        /\ d + f <= T
        /\ pollManifest = T
        /\ pollRecs = RecsOf(d, f)
        /\ pollState \in
              (IF T = 0
               THEN {Absent,
                     StateRec("RUNNING", 0, "", "SPLIT", 0, 0, 0),
                     StateRec("FAILED", 100, "Preflight not successful", "SPLIT", 0, 0, 0)}
               ELSE {StateRec("RUNNING", 0, "", "SPLIT", 0, 0, 0),
                     StateRec("RUNNING", 0, "", "SPLIT", T, 0, 0)}
                    \cup (IF d + f = T THEN {SplitFinalState(T, d, f)} ELSE {}))

\* What uploads/<job>/ can hold: nothing; the state of a fatal check; after
\* the manifest, the state of upload_split_job or of a finalize_upload_job scan.
UploadDirInit ==
    \E T \in 0..MaxPollItems, d \in 0..MaxPollItems, f \in 0..MaxPollFailed :
        /\ d + f <= T
        /\ pollManifest = T
        /\ pollRecs = RecsOf(d, f)
        /\ pollState \in
              (IF T = 0
               THEN {Absent, StateRec("FAILED", 100, "No split PDFs found", "", 0, 0, 0)}
               ELSE {StateRec("RUNNING", 0, "", "UPLOAD", T, 0, 0),
                     UploadFinalState(T, d, f), UploadFinalState(T, d, 0)})

PollInit ==
    /\ pollPhase \in {"PREFLIGHT", "SPLIT", "UPLOAD"}
    /\ pollResp = NoAnswer
    /\ pollPc = "idle"
    /\ pollTotal = 0
    /\ CASE pollPhase = "PREFLIGHT" -> PreflightDirInit
         [] pollPhase = "SPLIT" -> SplitDirInit
         [] pollPhase = "UPLOAD" -> UploadDirInit

preflight_split_status ==
    /\ pollPhase = "PREFLIGHT"
    /\ pollResp = NoAnswer
    /\ pollResp' = PreflightStatusAnswer(pollState)
    /\ UNCHANGED <<pollPhase, pollState, pollManifest, pollRecs, pollPc, pollTotal,
                   notPoll>>

async_split_status ==
    /\ pollPhase = "SPLIT"
    /\ pollResp = NoAnswer
    /\ pollResp' = SplitStatusAnswer(pollState, pollManifest, pollRecs)
    /\ UNCHANGED <<pollPhase, pollState, pollManifest, pollRecs, pollPc, pollTotal,
                   notPoll>>

async_upload_status ==
    /\ pollPhase = "UPLOAD"
    /\ pollResp = NoAnswer
    /\ pollResp' = UploadStatusAnswer(pollState, pollManifest, pollRecs)
    /\ UNCHANGED <<pollPhase, pollState, pollManifest, pollRecs, pollPc, pollTotal,
                   notPoll>>

InitPoll == PollInit /\ JobIdle /\ ChunkIdle /\ AdmIdle /\ StoreIdle /\ PreIdle

NextPoll ==
    \/ preflight_split_status
    \/ async_split_status
    \/ async_upload_status

SpecPoll == InitPoll /\ [][NextPoll]_vars

\* -------------------------------------------------------- SpecPreflight
\* preflight_split_job, state write by state write, over inputs on both sides
\* of each of its limits.
max_bytes == 1073741824
max_pages == 20000
max_outputs == 2000
max_total_extracted_pages == 100000

MaxBlocks == 2

\* page_ranges_text is a sequence of blocks. The block [start, end, repeat]
\* stands for `repeat` groups "start-end" separated by ';'. A negative start
\* stands for a segment text that matches neither '^(\d+)\s*-\s*(\d+)$' nor
\* '^(\d+)$'. The empty sequence stands for a text of separators only (";"),
\* which start_preflight_split lets through because it is not blank.
Block(start, end, repeat) == [start |-> start, end |-> end, repeat |-> repeat]

PfSizes == {1, max_bytes, max_bytes + 1}
PfPageCounts == {3, max_pages, max_pages + 1}
PfBlocks ==
    {Block(-1, -1, 1)} \cup
    {Block(s, e, r) : s \in {0, 1, 2}, e \in {1, 3, max_pages},
                      r \in {1, 6, max_outputs + 1}}
PfTexts == UNION {[1..n -> PfBlocks] : n \in 0..MaxBlocks}

RECURSIVE ParseFrom(_, _)
\* the loop over groups_raw and parts: the first error raised, "" when none
ParseFrom(text, i) ==
    IF i > Len(text) THEN ""
    ELSE IF text[i].start < 0 THEN "Invalid segment. Use 1-4 or 55"
    ELSE IF text[i].start < 1 \/ text[i].end < 1 \/ text[i].end < text[i].start
         THEN "Invalid segment. Ensure start/end are positive and end >= start"
    ELSE ParseFrom(text, i + 1)

\* The ValueError parse_split_groups raises, "" when it returns the groups
\* (which are then the blocks of the text themselves).
parse_split_groups(text) ==
    IF Len(text) = 0 THEN "Page ranges are required" ELSE ParseFrom(text, 1)

RECURSIVE GroupCount(_, _)
\* len(groups)
GroupCount(groups, i) ==
    IF i > Len(groups) THEN 0 ELSE groups[i].repeat + GroupCount(groups, i + 1)

\* Faulty variant: a segment that ends on the last page is rejected too
SegmentExceeds_LastPage(end, total_pages) == end >= total_pages

\* the test of tasks.py:334
SegmentExceeds(end, total_pages) == end > total_pages

RECURSIVE SegmentLoop(_, _, _, _)
\* The loop of tasks.py:331-340 from block i on, with total_extracted_pages
\* so far. The segments of one block are equal, so the first of them decides
\* the page test and the last of them decides the cumulative test.
SegmentLoop(groups, total_pages, i, extracted) ==
    IF i > Len(groups) THEN [error |-> "", total |-> extracted]
    ELSE LET b == groups[i]
             after == extracted + b.repeat * (b.end - b.start + 1)
         IN  IF SegmentExceeds(b.end, total_pages)
             THEN [error |-> "Segment exceeds total pages", total |-> extracted]
             ELSE IF after > max_total_extracted_pages
             THEN [error |-> "Too many total pages requested across splits",
                   total |-> after]
             ELSE SegmentLoop(groups, total_pages, i + 1, after)

\* Faulty variant: the handler leaves the progress where the failure happened
PreflightFailed_KeepProgress(state, err) ==
    [state EXCEPT !.status = "FAILED", !.error = err]

\* the state update of the except clause, tasks.py:361-365
PreflightFailed(state, err) ==
    [state EXCEPT !.status = "FAILED", !.progress = 100, !.error = err]

\* the except clause: the FAILED state, finish_run, return
PreflightExcept(err) ==
    /\ pfState' = PreflightFailed(pfState, err)
    /\ pfRun' = finish_run(pfRun, "FAILED")
    /\ pfPc' = "returned"

PreflightInit ==
    /\ pfExists \in BOOLEAN
    /\ pfSize \in (IF pfExists THEN PfSizes ELSE {0})
    /\ pfReadable \in (IF pfExists THEN BOOLEAN ELSE {FALSE})
    /\ pfPages \in (IF pfReadable THEN PfPageCounts ELSE {0})
    /\ pfText \in PfTexts
    /\ pfState = Absent
    /\ pfRun = "NONE"
    /\ pfPc = "queued"

\* tasks.py:287-299: the first state write and the run row
pf_start ==
    /\ pfPc = "queued"
    /\ pfState' = StateRec("RUNNING", 0, "", "PREFLIGHT", 0, 0, 0)
    /\ pfRun' = get_or_create_run(pfRun)
    /\ pfPc' = "started"
    /\ UNCHANGED <<pfExists, pfSize, pfReadable, pfPages, pfText, notPre>>

\* tasks.py:302-307
pf_size ==
    /\ pfPc = "started"
    /\ IF ~pfExists
       THEN PreflightExcept("Input PDF not found for preflight")
       ELSE /\ pfState' = [pfState EXCEPT !.progress = 10]
            /\ pfPc' = "sized"
            /\ pfRun' = pfRun
    /\ UNCHANGED <<pfExists, pfSize, pfReadable, pfPages, pfText, notPre>>

\* tasks.py:309-319
pf_pages ==
    /\ pfPc = "sized"
    /\ IF pfSize > max_bytes
       THEN PreflightExcept("PDF file is too large. Maximum allowed size is 1GB.")
       ELSE IF ~pfReadable
       THEN PreflightExcept("PdfReadError")
       ELSE IF parse_split_groups(pfText) # ""
       THEN PreflightExcept(parse_split_groups(pfText))
       ELSE /\ pfState' = [pfState EXCEPT !.progress = 30]
            /\ pfPc' = "counted"
            /\ pfRun' = pfRun
    /\ UNCHANGED <<pfExists, pfSize, pfReadable, pfPages, pfText, notPre>>

\* tasks.py:321-326
pf_groups ==
    /\ pfPc = "counted"
    /\ IF pfPages > max_pages
       THEN PreflightExcept("PDF has too many pages")
       ELSE IF parse_split_groups(pfText) # ""
       THEN PreflightExcept(parse_split_groups(pfText))
       ELSE /\ pfState' = [pfState EXCEPT !.progress = 60]
            /\ pfPc' = "parsed"
            /\ pfRun' = pfRun
    /\ UNCHANGED <<pfExists, pfSize, pfReadable, pfPages, pfText, notPre>>

\* tasks.py:328-358
pf_finish ==
    /\ pfPc = "parsed"
    /\ IF GroupCount(pfText, 1) > max_outputs
       THEN PreflightExcept("Too many split outputs requested")
       ELSE IF SegmentLoop(pfText, pfPages, 1, 0).error # ""
       THEN PreflightExcept(SegmentLoop(pfText, pfPages, 1, 0).error)
       ELSE /\ pfState' = [pfState EXCEPT !.status = "SUCCESS", !.progress = 100]
            /\ pfPc' = "returned"
            /\ pfRun' = pfRun
    /\ UNCHANGED <<pfExists, pfSize, pfReadable, pfPages, pfText, notPre>>

InitPreflight ==
    PreflightInit /\ JobIdle /\ ChunkIdle /\ AdmIdle /\ StoreIdle /\ PollIdle

NextPreflight ==
    \/ pf_start
    \/ pf_size
    \/ pf_pages
    \/ pf_groups
    \/ pf_finish

SpecPreflight == InitPreflight /\ [][NextPreflight]_vars

\* --------------------------------------------------------- SpecPollLive
\* async_upload_status read by read, while the upload tasks of the job go on
\* writing the directory it reads.
MaxLiveItems == 3

LiveItems == 1..MaxLiveItems

InitPollLive ==
    /\ pollPhase = "UPLOAD"
    /\ pollState = Absent
    /\ pollManifest = 0
    /\ pollRecs = [i \in PollItems |-> "NONE"]
    /\ pollResp = NoAnswer
    /\ pollPc = "idle"
    /\ pollTotal = 0
    /\ JobIdle /\ ChunkIdle /\ AdmIdle /\ StoreIdle /\ PreIdle

\* upload_split_job over a split folder that holds one PDF more than at its
\* last execution: the manifest, then the RUNNING state (tasks.py:628-659)
poll_upload_split_job ==
    /\ pollManifest < MaxLiveItems
    /\ pollManifest' = pollManifest + 1
    /\ pollState' = StateRec("RUNNING", 0, "", "UPLOAD", pollManifest + 1, 0, 0)
    /\ UNCHANGED <<pollPhase, pollRecs, pollResp, pollPc, pollTotal, notPoll>>

\* upload_split_file_job writes the status record of its index
poll_upload_split_file_job ==
    \E i \in LiveItems, status \in {"SUCCESS", "FAILED"} :
        /\ i <= pollManifest
        /\ pollRecs[i] # "SUCCESS"
        /\ pollRecs' = [pollRecs EXCEPT ![i] = status]
        /\ UNCHANGED <<pollPhase, pollState, pollManifest, pollResp, pollPc, pollTotal,
                       notPoll>>

\* finalize_upload_job: the scan over the manifest and the state it writes
poll_finalize_upload_job ==
    /\ pollManifest # 0
    /\ pollState.status = "RUNNING"
    /\ LET done == Cardinality({i \in 1..pollManifest : pollRecs[i] = "SUCCESS"})
           failed == Cardinality({i \in 1..pollManifest : pollRecs[i] = "FAILED"})
       IN  pollState' = UploadFinalState(pollManifest, done, failed)
    /\ UNCHANGED <<pollPhase, pollManifest, pollRecs, pollResp, pollPc, pollTotal,
                   notPoll>>

\* async_upload_status up to its reading of manifest.json
\* (views_processor_ui.py:365-386): the answers that need no count are given
\* at once
async_upload_status_read ==
    /\ pollPc # "listing"
    /\ IF pollState.status = "ABSENT" \/ ~(pollState.stage = "UPLOAD"
                                            /\ pollState.status = "RUNNING")
       THEN /\ pollResp' = UploadStatusAnswer(pollState, pollManifest, pollRecs)
            /\ pollPc' = "answered"
            /\ pollTotal' = pollTotal
       ELSE /\ pollTotal' = (IF pollManifest # 0 THEN pollManifest ELSE pollState.total)
            /\ pollPc' = "listing"
            /\ pollResp' = pollResp
    /\ UNCHANGED <<pollPhase, pollState, pollManifest, pollRecs, notPoll>>

\* the listing of files/ and the answer (views_processor_ui.py:388-408); the
\* state object answered is the RUNNING one read before, with the new counts
async_upload_status_list ==
    /\ pollPc = "listing"
    /\ LET done == CountRecs(pollRecs, "SUCCESS")
           failed == CountRecs(pollRecs, "FAILED")
       IN  pollResp' = Answer(TRUE, "RUNNING", Progress(pollTotal, done, failed), "",
                              pollTotal, done, failed)
    /\ pollPc' = "answered"
    /\ UNCHANGED <<pollPhase, pollState, pollManifest, pollRecs, pollTotal, notPoll>>

NextPollLive ==
    \/ poll_upload_split_job
    \/ poll_upload_split_file_job
    \/ poll_finalize_upload_job
    \/ async_upload_status_read
    \/ async_upload_status_list

SpecPollLive == InitPollLive /\ [][NextPollLive]_vars

\* ====================================================================
\* Claims checked under Spec
\* ====================================================================

Terminal == {"SUCCESS", "PARTIAL_SUCCESS", "FAILED"}

\* A state object written by a finalizer from a complete set of status records.
Aggregated(st) ==
    /\ st.stage \in {"SPLIT", "UPLOAD"}
    /\ st.status \in Terminal
    /\ st.error = ""
    /\ st.done + st.failed = st.total

\* C1 (as claimed; violated): a phase state computed by a finalizer from a complete
\* set of status records with D successes and F failures out of T is SUCCESS iff
\* F = 0, PARTIAL_SUCCESS iff D > 0 and F > 0, FAILED iff D = 0 and F = T.
C1_AggregateStatus ==
    \A st \in {split, upload} :
        (Aggregated(st) /\ st.total > 0) =>
            /\ (st.status = "SUCCESS") <=> (st.failed = 0)
            /\ (st.status = "PARTIAL_SUCCESS") <=> (st.done > 0 /\ st.failed > 0)
            /\ (st.status = "FAILED") <=> (st.done = 0 /\ st.failed = st.total)

\* The worker tasks a step adds to the queue.
NewWorkers == {w \in queue' \ queue : w.task = "upload_split_file_job"}

\* A step in which upload_split_job runs past its fatal checks.
UploadScheduled ==
    /\ \E t \in queue : t.task = "upload_split_job" /\ t \notin queue'
    /\ \E f \in queue' \ queue : f.task = "finalize_upload_job"

\* C2: an execution of upload_split_job over N enumerated files of which K have a
\* SUCCESS status record enqueues exactly N - K upload_split_file_job tasks, one
\* for each index whose record is missing or FAILED and none for the others.
C2_ResumeEnqueues ==
    [][UploadScheduled =>
          LET N == Len(uploadManifest')
              K == Cardinality({i \in 1..N : files[i].status = "SUCCESS"})
          IN  /\ Cardinality(NewWorkers) = N - K
              /\ \A i \in 1..N :
                    (files[i].status # "SUCCESS") <=>
                        (\E w \in NewWorkers : w.index = i /\ w.file = uploadManifest'[i])
              /\ \A w \in NewWorkers : w.index \in 1..N]_vars

\* C2 witness: a re-invocation over two files, one of them already uploaded, has
\* enqueued exactly one worker.
C2_Witness ==
    /\ uploadGen = 2
    /\ Len(uploadManifest) = 2
    /\ \E i \in 1..2 : files[i].status = "SUCCESS"
    /\ Cardinality({w \in queue : w.task = "upload_split_file_job" /\ w.gen = 2}) = 1
    /\ \A w \in queue : w.task = "upload_split_file_job" => w.gen = 2

Quiescent == queue = {} /\ active = {} /\ fin = {}

\* C3 (as claimed; violated): after a re-invocation that enqueued workers, all of
\* which succeeded, once no task is pending or running the upload state is SUCCESS
\* with total = N, done = N, failed = 0.
C3_ResumeConverges ==
    (Quiescent /\ rerun = "enqueued" /\ upload.error = "") =>
        /\ upload.status = "SUCCESS"
        /\ upload.total = Len(uploadManifest)
        /\ upload.done = upload.total
        /\ upload.failed = 0

\* A step in which split_pdf_job runs.
SplitRan == \E t \in queue : t.task = "split_pdf_job" /\ t \notin queue'

\* The tasks a step adds to the queue.
NewTasks == queue' \ queue

\* C9: split_pdf_job writes the manifest and schedules chunk tasks only if the
\* preflight state exists with status SUCCESS; otherwise it writes split state
\* FAILED with progress 100 and an error, marks the run FAILED and schedules
\* neither a chunk task nor a finalizer.
C9_SplitNeedsPreflight ==
    [][SplitRan =>
          IF preflight.status = "SUCCESS"
          THEN /\ splitManifest' = jobItems
               /\ \E w \in NewTasks : w.task = "split_pdf_chunk_job"
          ELSE /\ split'.status = "FAILED"
               /\ split'.progress = 100
               /\ split'.error # ""
               /\ run' = "FAILED"
               /\ NewTasks = {}
               /\ splitManifest' = splitManifest]_vars

\* C9 witness: split ran while the preflight was still RUNNING and failed.
C9_Witness ==
    /\ preflight.status = "RUNNING"
    /\ split.status = "FAILED"
    /\ split.error = "Preflight not successful"
    /\ run = "FAILED"
    /\ splitManifest = 0

\* C10 (as claimed; violated): an execution of upload_split_job for a job whose
\* split state does not report SUCCESS writes no upload manifest and enqueues no
\* upload worker.
C10_UploadNeedsSplit ==
    [][((\E t \in queue : t.task = "upload_split_job" /\ t \notin queue')
            /\ split.status # "SUCCESS")
          => (uploadManifest' = uploadManifest /\ NewWorkers = {})]_vars

\* ====================================================================
\* Claims checked under SpecChunk
\* ====================================================================

\* The chunk size the claim names: the configured one, 10 when it is below 1.
ClaimedChunkSize == IF chSetting < 1 THEN 10 ELSE chSetting

C5_CeilingsHold ==
    /\ RunningTotal(runStatus) <= MaxRunningTotal
    /\ RunningAsync(runStatus) <= MaxRunningAsync

\* C6: a submission is rejected iff at the time of the check the RUNNING count is
\* at or above the total ceiling or the RUNNING ASYNC count at or above the
\* asynchronous ceiling; the rejection carries both counts and both limits and
\* creates no job, enqueues no task and writes no row; an accepted submission
\* creates the job and enqueues its preflight.
C6_RejectIffAtCeiling ==
    [][start_preflight_split_view =>
          LET total == Cardinality({j \in AllJobs : runStatus[j] = "RUNNING"})
              async == Cardinality({j \in AsyncJobs : runStatus[j] = "RUNNING"})
          IN  /\ (resp'.kind = "busy") <=> (total >= 4 \/ async >= 3)
              /\ resp'.kind = "busy" =>
                    /\ resp'.running_total = total
                    /\ resp'.running_async = async
                    /\ resp'.max_running_total = 4
                    /\ resp'.max_running_async = 3
                    /\ UNCHANGED <<runStatus, jobDirs, admQueue>>
              /\ resp'.kind # "busy" =>
                    /\ resp'.kind = "accepted"
                    /\ jobDirs' = jobDirs \cup {resp'.job}
                    /\ admQueue' = admQueue \cup {resp'.job}
                    /\ resp'.job \notin jobDirs]_vars

\* C6 witness: a submission rejected on the asynchronous ceiling alone.
C6_Witness ==
    /\ resp.kind = "busy"
    /\ resp.running_async = 3
    /\ resp.running_total = 3
    /\ RunningAsync(runStatus) = 3
    /\ admQueue = {}

\* A step in which exactly one run leaves RUNNING and no other row changes.
OneRunFinishes ==
    \E j \in AllJobs :
        /\ runStatus[j] = "RUNNING"
        /\ runStatus'[j] # "RUNNING"
        /\ \A k \in AllJobs \ {j} : runStatus'[k] = runStatus[k]

\* C7 (as claimed; violated): when the RUNNING count equals the total ceiling and
\* one job then leaves RUNNING, the next submission is accepted.
C7_AcceptedAfterOneFinishes ==
    [][(RunningTotal(runStatus) = MaxRunningTotal /\ OneRunFinishes)
          => async_capacity_allows_new_job(runStatus')]_vars

\* C7 (amended): at the total ceiling a submission is rejected with the ceiling and
\* the count echoed; when one job then leaves RUNNING the next submission is
\* accepted iff fewer RUNNING ASYNC runs than the asynchronous ceiling remain.
C7_AcceptedIffAsyncBelow ==
    [][/\ (RunningTotal(runStatus) = MaxRunningTotal /\ start_preflight_split_view) =>
            /\ resp'.kind = "busy"
            /\ resp'.running_total = RunningTotal(runStatus)
            /\ resp'.max_running_total = MaxRunningTotal
       /\ (RunningTotal(runStatus) = MaxRunningTotal /\ OneRunFinishes) =>
            (async_capacity_allows_new_job(runStatus')
                <=> RunningAsync(runStatus') < MaxRunningAsync)]_vars

\* C7 witness: a submission was rejected at the total ceiling, a run has finished
\* since, and the latest submission was accepted.
C7_Witness ==
    /\ rejectedAtCeiling
    /\ resp.kind = "accepted"
    /\ resp.job \in admQueue
    /\ RunningTotal(runStatus) = MaxRunningTotal - 1
    /\ \E j \in AllJobs : runStatus[j] \in {"SUCCESS", "PARTIAL_SUCCESS", "FAILED"}

\* ====================================================================
\* Claims checked under SpecStore
\* ====================================================================

FinalizerStep ==
    \/ \E f \in fin : f \notin fin'
    \/ \E t \in queue : /\ t.task \in {"finalize_split_job", "finalize_upload_job"}
                        /\ t \notin queue'

\* C11 (as claimed; violated): the run status leaves RUNNING only in a step of a
\* finalizer; no step of preflight_split_job, split_pdf_job, upload_split_job or
\* of a worker takes it out of RUNNING.
C11_OnlyAggregatorEndsRun ==
    [][(run = "RUNNING" /\ run' # "RUNNING") => FinalizerStep]_vars

\* C12 (as claimed; violated): whenever the state of a phase is RUNNING with an
\* empty error, a later poll finds it non-RUNNING or with an error, also when an
\* item worker dies before writing its status record.
C12_NoStuckPolling ==
    /\ (preflight.status = "RUNNING" /\ preflight.error = "")
            ~> (preflight.status # "RUNNING" \/ preflight.error # "")
    /\ (split.status = "RUNNING" /\ split.error = "")
            ~> (split.status # "RUNNING" \/ split.error # "")
    /\ (upload.status = "RUNNING" /\ upload.error = "")
            ~> (upload.status # "RUNNING" \/ upload.error # "")

\* Every work item of the split manifest has a terminal status record.
SplitConverged ==
    \A i \in 1..splitManifest : outputStatus[i] \in {"SUCCESS", "FAILED"}

\* Every file of the upload manifest has a terminal status record.
UploadConverged ==
    \A i \in 1..Len(uploadManifest) : files[i].status \in {"SUCCESS", "FAILED"}

\* C16 (as claimed; violated): whenever the split or the upload state is SUCCESS
\* or PARTIAL_SUCCESS, every work item of that phase's manifest has a terminal
\* status record.
C16_CompleteMeansConverged ==
    /\ split.status \in {"SUCCESS", "PARTIAL_SUCCESS"} => SplitConverged
    /\ upload.status \in {"SUCCESS", "PARTIAL_SUCCESS"} => UploadConverged

\* The finalizer tasks a step adds to the queue.
NewFinalizers ==
    {t \in NewTasks : t.task \in {"finalize_split_job", "finalize_upload_job"}}

\* The phase state after a step in which finalizer execution f writes it.
WrittenBy(f) == IF f.task = "finalize_split_job" THEN split' ELSE upload'

C18_WorkerWritesTerminalRecord ==
    [][upload_split_file_job =>
          \E t \in active \ active' :
              /\ files'[t.index].status \in {"SUCCESS", "FAILED"}
              /\ files'[t.index].filename = t.file
              /\ files'[t.index].status = "SUCCESS" => files'[t.index].attempts \in 1..3
              /\ files'[t.index].status = "FAILED" => files'[t.index].attempts \in {0, 3}
              /\ \A i \in Items \ {t.index} : files'[i] = files[i]
              /\ upload' = upload
              /\ run' = run]_vars

\* C19 (as claimed; violated): an execution of upload_split_file_job that began
\* when the status record of its index was SUCCESS leaves the status records as
\* they are.
C19_WorkerSkipsOnSuccess ==
    [][\A t \in (active \ active') \cap sawSuccess : files' = files]_vars

\* C20 (as claimed; violated): no two executions of upload_split_file_job for the
\* same index are in progress at once, also when upload_split_job is invoked
\* again while workers of its earlier invocation are running.
C20_OneWorkerPerIndex ==
    \A a, b \in active :
        (/\ a.task = "upload_split_file_job"
         /\ b.task = "upload_split_file_job"
         /\ a.index = b.index) => a = b

\* ====================================================================
\* Claims checked under SpecPoll
\* ====================================================================

\* C13 (as claimed; violated): a poll of a SPLIT or UPLOAD phase whose state is
\* RUNNING (and whose manifest exists) answers with the counts of the status
\* records present at the poll: done = number of SUCCESS records, failed = number
\* of FAILED records, total = manifest size, and
\* progress = floor(100 * (done + failed) / max(1, total)).
C13_LivePollCounts ==
    (/\ pollResp # NoAnswer
     /\ pollPhase \in {"SPLIT", "UPLOAD"}
     /\ pollState.status = "RUNNING"
     /\ pollManifest # 0)
    => LET done == Cardinality({i \in PollItems : pollRecs[i] = "SUCCESS"})
           failed == Cardinality({i \in PollItems : pollRecs[i] = "FAILED"})
       IN  /\ pollResp.done = done
           /\ pollResp.failed = failed
           /\ pollResp.total = pollManifest
           /\ pollResp.progress = (100 * (done + failed)) \div pollManifest

\* C14: a poll of a phase whose state.json does not exist answers the not-started
\* sentinel, status PENDING with success true and no error, for preflight, split
\* and upload alike.
C14_PendingSentinel ==
    (pollResp # NoAnswer /\ pollState.status = "ABSENT") =>
        /\ pollResp.status = "PENDING"
        /\ pollResp.success = TRUE
        /\ pollResp.error = ""

\* C14 witness: the preflight of a job id nobody submitted was polled and the
\* answer is the sentinel.
C14_Witness ==
    /\ pollPhase = "PREFLIGHT"
    /\ pollState = Absent
    /\ pollManifest = 0
    /\ pollResp = PendingAnswer

\* ====================================================================
\* Claims checked under SpecAdmPhase
\* ====================================================================

\* C15 (as claimed; violated): a request to start or retry the split or the upload
\* of an admitted job is never answered busy on account of the ceilings.
C15_AdmissionOnlyAtCreation ==
    [][start_async_phase_view => resp'.kind # "busy"]_vars

\* ====================================================================
\* Claims checked under Spec: manifests, fatal errors, the run record
\* ====================================================================

\* C21 (as claimed; violated): once the manifest of a phase has been written, no
\* later step changes it: the split manifest keeps its outputs and the upload
\* manifest keeps its list of files, index by index.
C21_ManifestWrittenOnce ==
    [][/\ splitManifest # 0 => splitManifest' = splitManifest
       /\ uploadManifest # <<>> => uploadManifest' = uploadManifest]_vars

\* ====================================================================
\* Claims checked under SpecPreflight
\* ====================================================================
RECURSIVE SegmentLengths(_, _)
SegmentLengths(text, i) ==
    IF i > Len(text) THEN 0
    ELSE text[i].repeat * (text[i].end - text[i].start + 1) + SegmentLengths(text, i + 1)

WithinLimits ==
    /\ pfExists
    /\ pfSize <= max_bytes
    /\ pfPages <= max_pages
    /\ GroupCount(pfText, 1) <= max_outputs
    /\ \A i \in 1..Len(pfText) :
           /\ 1 <= pfText[i].start
           /\ pfText[i].start <= pfText[i].end
           /\ pfText[i].end <= pfPages
    /\ SegmentLengths(pfText, 1) <= max_total_extracted_pages

C23_PreflightEndsTerminal ==
    /\ [](pfPc = "returned" =>
            /\ pfState.status \in {"SUCCESS", "FAILED"}
            /\ pfState.progress = 100
            /\ pfState.status = "FAILED" => (pfState.error # "" /\ pfRun = "FAILED"))
    /\ [][pfPc = "returned" => UNCHANGED <<pfState, pfRun, pfPc>>]_vars

C23_Witness ==
    /\ pfPc = "returned"
    /\ pfState.status = "FAILED"
    /\ pfState.error = "Segment exceeds total pages"
    /\ pfRun = "FAILED"

\* ====================================================================
\* Claims checked under Spec: fatal errors, aggregation, the run record
\* ====================================================================

\* A step that is one execution of upload_split_job.
UploadJobStep == \E t \in queue : t.task = "upload_split_job" /\ t \notin queue'

\* A step in which a finalize_upload_job finds no manifest.
FinalizeWithoutManifest ==
    /\ \E t \in queue : t.task = "finalize_upload_job" /\ t \notin queue'
    /\ uploadManifest = <<>>

\* What the claim says of a fatal error: the phase state is FAILED with an
\* error text, the run is FAILED, and the step added no task to the queue.
FailedAndStopped ==
    /\ upload'.status = "FAILED"
    /\ upload'.error # ""
    /\ run' = "FAILED"
    /\ queue' \subseteq queue

\* C24 (as claimed; violated): an execution of upload_split_job either gets past
\* its fatal checks, and then schedules a finalizer, or it hits a fatal error, and
\* then the upload state is FAILED with an error, the run is FAILED and nothing
\* was enqueued; a missing split folder or an empty one is always the second
\* case, and so is a finalizer that finds no manifest.
C24_FatalErrorMarksFailed ==
    [][/\ UploadJobStep => (UploadScheduled \/ FailedAndStopped)
       /\ (UploadJobStep /\ (~splitDir \/ splitPdfs = {})) => FailedAndStopped
       /\ FinalizeWithoutManifest => FailedAndStopped]_vars

\* C25 (as claimed; violated): once no task is pending or running, the aggregate
\* state of a phase whose items all have a terminal record is the function of
\* those records alone: the counts are the numbers of SUCCESS and FAILED records
\* of the manifest and the status is the one they determine, whatever the order
\* in which items completed and finalizers ran.
C25_AggregateOrderIndependent ==
    Quiescent =>
        /\ (uploadManifest # <<>> /\ UploadConverged /\ upload.error = "") =>
              LET s == UploadScan(uploadManifest, files)
              IN  upload = UploadFinalState(s.total, s.done, s.failed)
        /\ (splitManifest # 0 /\ SplitConverged /\ split.error = "") =>
              split = SplitFinalState(splitManifest, SplitScan.done, SplitScan.failed)

\* ====================================================================
\* Claims checked under SpecAdmJobs
\* ====================================================================

\* A step of the program that lowers the number of RUNNING rows.
LowersRunning == NextAdmJobs /\ RunningTotal(runStatus') < RunningTotal(runStatus)

\* Some admitted job waits to start its split, no task of any admitted job is
\* enqueued or running, every start request is answered busy, and no step that
\* lowers the number of RUNNING rows is enabled.
AdmissionDeadlock ==
    /\ \E j \in AsyncJobs : jobPhase[j] = "waiting"
    /\ admQueue = {}
    /\ \A j \in jobDirs : jobPhase[j] \in {"waiting", "finished"}
    /\ ~async_capacity_allows_new_job(runStatus)
    /\ ~ENABLED LowersRunning

\* C26 (as claimed; violated): admission never deadlocks the admitted jobs: no
\* reachable state has jobs waiting to start their split while the RUNNING rows
\* of those same jobs keep every start request rejected and no enabled step can
\* lower the count.
C26_NoAdmissionDeadlock == ~AdmissionDeadlock

\* ====================================================================
\* Claims checked under Spec: the run record and the phase states
\* ====================================================================

\* C27 (as claimed; violated): whenever the state of the preflight, the split or
\* the upload of the job is RUNNING, the run record of the job is RUNNING.
C27_RunningPhaseCounts ==
    (\E st \in {preflight, split, upload} : st.status = "RUNNING") => run = "RUNNING"

\* C28: the status of the run never goes from SUCCESS, PARTIAL_SUCCESS or FAILED
\* back to RUNNING, whichever tasks run and are re-run.
C28_RunNeverReopens ==
    [][(run \in {"SUCCESS", "PARTIAL_SUCCESS", "FAILED"}) => (run' # "RUNNING")]_vars

\* C28 witness: upload_split_job has called get_or_create_run on a run that
\* finalize_split_job had finished.
C28_Witness ==
    /\ run = "SUCCESS"
    /\ split.status = "SUCCESS"
    /\ upload.status = "RUNNING"
    /\ uploadGen >= 1

\* C29 (as claimed; violated): whenever the upload state is SUCCESS, the status
\* record at every index of the current upload manifest is SUCCESS and names the
\* file the manifest lists at that index.
C29_SuccessMeansAllUploaded ==
    upload.status = "SUCCESS" =>
        \A i \in 1..Len(uploadManifest) :
            /\ files[i].status = "SUCCESS"
            /\ files[i].filename = uploadManifest[i]

\* ====================================================================
\* Claims checked under SpecPollLive
\* ====================================================================

\* The counts and the progress of a state object or of a poll answer are sound.
CountsSound(o) ==
    /\ 0 <= o.done
    /\ 0 <= o.failed
    /\ o.done + o.failed <= o.total
    /\ o.progress \in 0..100
    /\ o.status # "RUNNING" => o.progress = 100

\* C30 (as claimed; violated): the upload state object on disk and every answer
\* of async_upload_status that carries a state have 0 <= done, 0 <= failed,
\* done + failed <= total, progress in 0..100, and progress 100 unless RUNNING.
C30_CountsWithinBounds ==
    /\ pollState.status # "ABSENT" => CountsSound(pollState)
    /\ (pollResp # NoAnswer /\ pollResp.status # "PENDING") => CountsSound(pollResp)

====
